---- MODULE Spec2Model ----
(***************************************************************************)
(* Countries-Table-Sorter (src/js/index.js): the `countries` query object  *)
(* (getByLanguage, getByPopulation, getByAreaAndContinent), the            *)
(* `tableHelper` DOM renderer (clearTable, countryCodeToFlagImg,           *)
(* countryToRow, countriesToTable) and the twelve click handlers that      *)
(* setupMenuHandlers registers.                                            *)
(*                                                                         *)
(* JavaScript values are tagged records, objects live in a heap of         *)
(* addressed cells while a query runs (so that copying and aliasing        *)
(* differ), and every handler is one atomic action: the page is            *)
(* single-threaded and a click handler runs to completion.                 *)
(***************************************************************************)
EXTENDS Integers, Sequences, FiniteSets

VARIABLES
    all0,       \* the dataset as loaded (window.countriesData), never assigned again
    all,        \* countries.all: the records the query object holds now
    ret,        \* the value returned by the most recent query call
    tableRows,  \* children of <tbody id="table-rows">
    subtitle,   \* the #subtitle heading: which property was last set, and to what
    last        \* the most recent call: its name, arguments, input and steps

vars == <<all0, all, ret, tableRows, subtitle, last>>

(***************************************************************************)
(* Bounds of the model.                                                    *)
(***************************************************************************)
MaxLen == 2

(***************************************************************************)
(* JavaScript values.                                                      *)
(***************************************************************************)
Undefined == [t |-> "undefined"]
Null == [t |-> "null"]
Num(n) == [t |-> "number", num |-> n]
Str(s) == [t |-> "string", str |-> s]
Bool(b) == [t |-> "boolean", bool |-> b]
\* A plain object literal: its own enumerable properties (string key -> value).
Obj(props) == [t |-> "object", props |-> props]
\* A member inherited from Object.prototype, identified by its key.
Inherited(key) == [t |-> "inherited", key |-> key]

\* The property names every object literal inherits from Object.prototype.
ObjectPrototypeKeys ==
    {"constructor", "toString", "toLocaleString", "valueOf", "hasOwnProperty",
     "isPrototypeOf", "propertyIsEnumerable", "__proto__"}

Digit(d) ==
    CASE d = 0 -> "0" [] d = 1 -> "1" [] d = 2 -> "2" [] d = 3 -> "3"
      [] d = 4 -> "4" [] d = 5 -> "5" [] d = 6 -> "6" [] d = 7 -> "7"
      [] d = 8 -> "8" [] d = 9 -> "9"

RECURSIVE NatToString(_)
NatToString(n) == IF n < 10 THEN Digit(n) ELSE NatToString(n \div 10) \o Digit(n % 10)

\* Number.prototype.toString for an integer.
NumToString(n) == IF n < 0 THEN "-" \o NatToString(0 - n) ELSE NatToString(n)

\* ToString(v): the string a text node, a template literal or a property key
\* is made of.
ToString(v) ==
    CASE v.t = "undefined" -> "undefined"
      [] v.t = "null" -> "null"
      [] v.t = "number" -> NumToString(v.num)
      [] v.t = "string" -> v.str
      [] v.t = "boolean" -> (IF v.bool THEN "true" ELSE "false")
      [] v.t = "object" -> "[object Object]"
      [] v.t = "inherited" -> "function " \o v.key \o "() { [native code] }"

\* A test written `v !== undefined` in place of `if (v)`.
TruthyUnlessUndefined(v) == v.t # "undefined"

\* ToBoolean(v): what `if (v)` tests.
Truthy(v) ==
    CASE v.t = "undefined" -> FALSE
      [] v.t = "null" -> FALSE
      [] v.t = "number" -> v.num # 0
      [] v.t = "string" -> v.str # ""
      [] v.t = "boolean" -> v.bool
      [] OTHER -> TRUE

\* base[key]: an own property, else one inherited from Object.prototype, else
\* undefined. A string base has no language-named property.
GetProp(base, key) ==
    LET k == ToString(key) IN
    IF base.t = "object"
    THEN IF k \in DOMAIN base.props THEN base.props[k]
         ELSE IF k \in ObjectPrototypeKeys THEN Inherited(k)
         ELSE Undefined
    ELSE Undefined

\* `>` written for `>=`.
JSGt(a, b) == a.t = "number" /\ b.t = "number" /\ a.num > b.num

\* a <= b and a >= b on a number and an optional number (undefined compares
\* as NaN: false).
JSLe(a, b) == a.t = "number" /\ b.t = "number" /\ a.num <= b.num
JSGe(a, b) == a.t = "number" /\ b.t = "number" /\ a.num >= b.num

(***************************************************************************)
(* The dataset (countries-data.js is outside the sources: records of the   *)
(* documented shape, with boundary populations and areas and with          *)
(* incomplete name objects).                                               *)
(***************************************************************************)
Languages ==
    {"English", "Arabic", "Chinese", "French", "Hindi", "Korean", "Japanese", "Russian"}

NameObject(english, langs) ==
    Obj([l \in langs |-> Str(IF l = "English" THEN english ELSE english \o " (" \o l \o ")")])

Country(code, continent, area, population, capital, name) ==
    [code |-> code, continent |-> continent, areaInKm2 |-> area,
     population |-> population, capital |-> capital, name |-> name]

PoolSeq ==
    << Country("CA", "Americas", 9984670, 36624199, "Ottawa", NameObject("Canada", Languages)),
      Country("IN", "Asia", 3287590, 1339180127, "New Delhi", NameObject("India", Languages)),
      Country("BH", "Asia", 765, 2000000, "Manama", NameObject("Bahrain", Languages)),
      Country("XA", "Americas", 1000000, 100000000, "Acity",
              NameObject("Aland", {"English", "French"})),
      Country("XB", "Asia", 0, 1000000, "", NameObject("Bland", {"English"})) >>

Pool == {PoolSeq[i] : i \in 1..Len(PoolSeq)}

\* Sequences of at most MaxLen records with pairwise different codes.
Datasets ==
    UNION { { s \in [1..n -> Pool] : \A i, j \in 1..n : i # j => s[i].code # s[j].code }
            : n \in 0..MaxLen }

\* The datasets that are at most MaxLen consecutive records of PoolSeq.
ConsecutiveDatasets ==
    UNION { { SubSeq(PoolSeq, i, i + n - 1) : i \in 1..(Len(PoolSeq) - n + 1) }
            : n \in 0..MaxLen }

(***************************************************************************)
(* countries.getByLanguage                                                 *)
(***************************************************************************)
\* newArr.push(this.all[i]): no copy, the array element is the dataset's own
\* record.
ObjectAssignAlias(heap, src) == [heap |-> heap, ref |-> src]

\* Object.assign({}, heap[src]): a new cell holding the source's own
\* properties (the name object itself is shared, not copied).
ObjectAssign(heap, src) == [heap |-> Append(heap, heap[src]), ref |-> Len(heap) + 1]

\* The loop without its `if (language)` guard.
RECURSIVE getByLanguageLoopUnguarded(_, _, _, _, _)
getByLanguageLoopUnguarded(heap, n, newArr, language, i) ==
    IF i > n THEN [heap |-> heap, newArr |-> newArr]
    ELSE LET c == ObjectAssign(heap, i)
             pushed == Append(newArr, c.ref)
             written == [c.heap EXCEPT ![pushed[i]].name = GetProp(c.heap[i].name, language)]
         IN getByLanguageLoopUnguarded(written, n, pushed, language, i + 1)

\* The loop of getByLanguage from index i on. `heap` holds the records of
\* this.all at addresses 1..n and the copies after them; newArr holds addresses.
RECURSIVE getByLanguageLoop(_, _, _, _, _)
getByLanguageLoop(heap, n, newArr, language, i) ==
    IF i > n THEN [heap |-> heap, newArr |-> newArr]
    ELSE LET c == ObjectAssign(heap, i)
             pushed == Append(newArr, c.ref)
             written == IF Truthy(language)
                        THEN [c.heap EXCEPT ![pushed[i]].name = GetProp(c.heap[i].name, language)]
                        ELSE c.heap
         IN getByLanguageLoop(written, n, pushed, language, i + 1)

\* The signature without its default: function(language).
DefaultLanguageNone(arg) == arg

\* The default parameter: `language = 'English'` applies when the argument is
\* missing or undefined.
DefaultLanguage(arg) == IF arg = Undefined THEN Str("English") ELSE arg

\* getByLanguage(arg) on this.all = thisAll: the returned array (by value) and
\* this.all as the call leaves it.
getByLanguage(thisAll, arg) ==
    LET n == Len(thisAll)
        r == getByLanguageLoop(thisAll, n, <<>>, DefaultLanguage(arg), 1)
    IN [ret |-> [k \in 1..Len(r.newArr) |-> r.heap[r.newArr[k]]],
        all |-> SubSeq(r.heap, 1, n)]

(***************************************************************************)
(* countries.getByPopulation, countries.getByAreaAndContinent              *)
(***************************************************************************)
\* newArr.push(x) written for newArr.unshift(x).
UnshiftAtEnd(newArr, x) == Append(newArr, x)

\* newArr.unshift(x)
Unshift(newArr, x) == <<x>> \o newArr

\* The loop of getByPopulation from index i on.
RECURSIVE getByPopulationLoop(_, _, _, _, _)
getByPopulationLoop(country, minPopulation, maxPopulation, newArr, i) ==
    IF i > Len(country) THEN newArr
    ELSE LET population == Num(country[i].population)
             next == IF Truthy(maxPopulation)
                     THEN IF JSLe(population, maxPopulation) /\ JSGe(population, minPopulation)
                          THEN Unshift(newArr, country[i])
                          ELSE newArr
                     ELSE IF JSGe(population, minPopulation)
                          THEN Unshift(newArr, country[i])
                          ELSE newArr
         IN getByPopulationLoop(country, minPopulation, maxPopulation, next, i + 1)

getByPopulation(thisAll, minPopulation, maxPopulation) ==
    LET english == getByLanguage(thisAll, Str("English"))
    IN [ret |-> getByPopulationLoop(english.ret, minPopulation, maxPopulation, <<>>, 1),
        all |-> english.all]

\* a === b
StrictEquals(a, b) == a = b

\* The loop of getByAreaAndContinent from index i on.
RECURSIVE getByAreaAndContinentLoop(_, _, _, _, _)
getByAreaAndContinentLoop(country, continent, minArea, newArr, i) ==
    IF i > Len(country) THEN newArr
    ELSE LET next == IF StrictEquals(Str(country[i].continent), continent)
                     THEN IF JSGe(Num(country[i].areaInKm2), minArea)
                          THEN Unshift(newArr, country[i])
                          ELSE newArr
                     ELSE newArr
         IN getByAreaAndContinentLoop(country, continent, minArea, next, i + 1)

getByAreaAndContinent(thisAll, continent, minArea) ==
    LET english == getByLanguage(thisAll, Str("English"))
    IN [ret |-> getByAreaAndContinentLoop(english.ret, continent, minArea, <<>>, 1),
        all |-> english.all]

(***************************************************************************)
(* tableHelper. A document is the rows of #table-rows and the log of the   *)
(* steps taken on the page during the running call.                        *)
(***************************************************************************)
Img(src) == [node |-> "img", src |-> src]
Text(data) == [node |-> "text", data |-> data]

\* A clearing that removes nothing.
clearTableKeepsRows(doc) == [rows |-> doc.rows, log |-> Append(doc.log, "clearTable")]

\* tableRows.innerHTML = ''
clearTable(doc) == [rows |-> <<>>, log |-> Append(doc.log, "clearTable")]

\* image.src = `flags/${countryCode}.png`
countryCodeToFlagImg(countryCode) == Img("flags/" \o ToString(countryCode) \o ".png")

\* One <tr>: seven <td>, each with one child, in the order they are appended.
countryToRow(country) ==
    << countryCodeToFlagImg(Str(country.code)),
       Text(ToString(Str(country.code))),
       Text(ToString(country.name)),
       Text(ToString(Str(country.continent))),
       Text(ToString(Num(country.areaInKm2))),
       Text(ToString(Num(country.population))),
       Text(ToString(Str(country.capital))) >>

\* The row inserted before the first row instead of appended.
appendChildFirst(doc, row) ==
    [rows |-> <<row>> \o doc.rows, log |-> Append(doc.log, "appendChild")]

\* document.querySelector('#table-rows').appendChild(row)
appendChild(doc, row) == [rows |-> Append(doc.rows, row), log |-> Append(doc.log, "appendChild")]

RECURSIVE countriesToTableLoop(_, _, _)
countriesToTableLoop(doc, countries, i) ==
    IF i > Len(countries) THEN doc
    ELSE countriesToTableLoop(appendChild(doc, countryToRow(countries[i])), countries, i + 1)

countriesToTable(doc, countries) == countriesToTableLoop(clearTable(doc), countries, 1)

(***************************************************************************)
(* State machine                                                           *)
(***************************************************************************)
LanguageArgs ==
    {Undefined, Null, Str(""), Num(0), Bool(FALSE), Str("Klingon"), Str("constructor")}
        \cup {Str(l) : l \in Languages}

MinPopulationArgs == {Num(0), Num(1000000), Num(100000000)}
MaxPopulationArgs == {Undefined, Num(0), Num(2000000), Num(100000000)}
ContinentArgs == {Str("Americas"), Str("Asia"), Str("asia"), Str("Europe")}
MinAreaArgs == {Num(0), Num(1000000)}

\* What `last` records of a call: its name, its arguments, the array handed to
\* countriesToTable, the number of table rows when it began, and its steps.
Call(op, args, input, before, steps) ==
    [op |-> op, args |-> args, input |-> input, before |-> before, steps |-> steps]

Loaded(dataset) ==
    /\ all0 = dataset
    /\ all = all0
    /\ ret = <<>>
    /\ tableRows = <<>>
    /\ subtitle = [prop |-> "textContent", value |-> ""]
    /\ last = Call("load", <<>>, <<>>, 0, <<>>)

Init == \E dataset \in Datasets : Loaded(dataset)

InitConsecutive == \E dataset \in ConsecutiveDatasets : Loaded(dataset)

\* A script calls one query method and keeps what it returns.
Query(op, args, r) ==
    /\ all' = r.all
    /\ ret' = r.ret
    /\ last' = Call(op, args, <<>>, Len(tableRows), <<op>>)
    /\ UNCHANGED <<all0, tableRows, subtitle>>

CallGetByLanguage ==
    \E arg \in LanguageArgs :
        Query("getByLanguage", <<arg>>, getByLanguage(all, arg))

CallGetByPopulation ==
    \E minPopulation \in MinPopulationArgs, maxPopulation \in MaxPopulationArgs :
        Query("getByPopulation", <<minPopulation, maxPopulation>>,
              getByPopulation(all, minPopulation, maxPopulation))

CallGetByAreaAndContinent ==
    \E continent \in ContinentArgs, minArea \in MinAreaArgs :
        Query("getByAreaAndContinent", <<continent, minArea>>,
              getByAreaAndContinent(all, continent, minArea))

\* A script renders an array: one a query returned, or the empty array.
CallCountriesToTable ==
    \E countries \in {ret, <<>>} :
        LET doc == countriesToTable([rows |-> tableRows, log |-> <<>>], countries) IN
        /\ tableRows' = doc.rows
        /\ last' = Call("countriesToTable", <<>>, countries, Len(tableRows), doc.log)
        /\ UNCHANGED <<all0, all, ret, subtitle>>

\* A click handler: the argument expression (the query) is evaluated, then
\* countriesToTable runs, then the subtitle is assigned.
Click(menu, r, prop, caption) ==
    LET doc == countriesToTable([rows |-> tableRows, log |-> <<"query">>], r.ret) IN
    /\ all' = r.all
    /\ ret' = r.ret
    /\ tableRows' = doc.rows
    /\ subtitle' = [prop |-> prop, value |-> caption]
    /\ last' = Call(menu, <<>>, r.ret, Len(tableRows), Append(doc.log, "subtitle"))
    /\ UNCHANGED all0

menu_english ==
    Click("menu_english", getByLanguage(all, Undefined), "textContent",
          "List of Countries and Dependencies in English")

menu_arabic ==
    Click("menu_arabic", getByLanguage(all, Str("Arabic")), "textContent",
          "List of Countries and Dependencies in Arabic")

menu_chinese ==
    Click("menu_chinese", getByLanguage(all, Str("Chinese")), "textContent",
          "List of Countries and Dependencies in Chinese")

menu_french ==
    Click("menu_french", getByLanguage(all, Str("French")), "textContent",
          "List of Countries and Dependencies in French")

menu_hindi ==
    Click("menu_hindi", getByLanguage(all, Str("Hindi")), "textContent",
          "List of Countries and Dependencies in Hindi")

menu_korean ==
    Click("menu_korean", getByLanguage(all, Str("Korean")), "textContent",
          "List of Countries and Dependencies in Korean")

menu_japanese ==
    Click("menu_japanese", getByLanguage(all, Str("Japanese")), "textContent",
          "List of Countries and Dependencies in Japanese")

menu_russian ==
    Click("menu_russian", getByLanguage(all, Str("Russian")), "textContent",
          "List of Countries and Dependencies in Russian")

menu_population_100_000_000m ==
    Click("menu_population_100_000_000m", getByPopulation(all, Num(100000000), Undefined),
          "textContent",
          "List of Countries and Dependencies - Population greater than 100 million")

menu_population_1m_2m ==
    Click("menu_population_1m_2m", getByPopulation(all, Num(1000000), Num(2000000)),
          "textContent",
          "List of Countries and Dependencies - Population between 1 and 2 millon")

menu_americas_1mkm ==
    Click("menu_americas_1mkm", getByAreaAndContinent(all, Str("Americas"), Num(1000000)),
          "innerHTML",
          "List of Countries and Dependencies - All countries in Americas with area greater than 1 million km<sup>2</sup")

menu_asia_all ==
    Click("menu_asia_all", getByAreaAndContinent(all, Str("Asia"), Num(0)), "textContent",
          "List of Countries and Dependencies - All countries in Asia")

Next ==
    \/ CallGetByLanguage
    \/ CallGetByPopulation
    \/ CallGetByAreaAndContinent
    \/ CallCountriesToTable
    \/ menu_english
    \/ menu_arabic
    \/ menu_chinese
    \/ menu_french
    \/ menu_hindi
    \/ menu_korean
    \/ menu_japanese
    \/ menu_russian
    \/ menu_population_100_000_000m
    \/ menu_population_1m_2m
    \/ menu_americas_1mkm
    \/ menu_asia_all

NextQuery ==
    \/ CallGetByLanguage
    \/ CallGetByPopulation
    \/ CallGetByAreaAndContinent

NextRender ==
    \/ CallGetByLanguage
    \/ CallGetByPopulation
    \/ CallGetByAreaAndContinent
    \/ CallCountriesToTable

NextMenu ==
    \/ menu_english
    \/ menu_arabic
    \/ menu_chinese
    \/ menu_french
    \/ menu_hindi
    \/ menu_korean
    \/ menu_japanese
    \/ menu_russian
    \/ menu_population_100_000_000m
    \/ menu_population_1m_2m
    \/ menu_americas_1mkm
    \/ menu_asia_all

\* Every call, in any order.
Spec == InitConsecutive /\ [][Next]_vars

\* Scripts calling the query methods only.
SpecQuery == Init /\ [][NextQuery]_vars

\* Scripts calling the query methods and countriesToTable.
SpecRender == Init /\ [][NextRender]_vars

\* A user clicking menu items.
SpecMenu == Init /\ [][NextMenu]_vars
(***************************************************************************)
(* What the specification says of a dataset, stated on the dataset as it   *)
(* was loaded and without the code's loops.                                *)
(***************************************************************************)
\* name[L] of a record of the dataset: the localized string, or undefined
\* when the name object has no such key.
NameIn(c, L) == IF L \in DOMAIN c.name.props THEN c.name.props[L] ELSE Undefined

\* The dataset with every name replaced by its name in language L.
Projection(L) == [i \in 1..Len(all0) |-> [all0[i] EXCEPT !.name = NameIn(all0[i], L)]]

Reverse(s) == [i \in 1..Len(s) |-> s[Len(s) + 1 - i]]

SameOtherFields(a, b) ==
    /\ a.code = b.code
    /\ a.continent = b.continent
    /\ a.areaInKm2 = b.areaInKm2
    /\ a.population = b.population
    /\ a.capital = b.capital

\* The English-projected records with population in [lo, hi], or at least lo
\* when there is no upper bound, later records first.
PopulationView(lo, bounded, hi) ==
    Reverse(SelectSeq(Projection("English"),
                      LAMBDA c : c.population >= lo /\ (bounded => c.population <= hi)))

\* The English-projected records of one continent with at least the given
\* area, later records first.
AreaView(continent, area) ==
    Reverse(SelectSeq(Projection("English"),
                      LAMBDA c : c.continent = continent /\ c.areaInKm2 >= area))

\* The decimal numerals of the populations and areas of the dataset records.
Decimal(n) ==
    CASE n = 0 -> "0"
      [] n = 765 -> "765"
      [] n = 1000000 -> "1000000"
      [] n = 2000000 -> "2000000"
      [] n = 3287590 -> "3287590"
      [] n = 9984670 -> "9984670"
      [] n = 36624199 -> "36624199"
      [] n = 100000000 -> "100000000"
      [] n = 1339180127 -> "1339180127"

IsCall(op) == last.op = op

(***************************************************************************)
(* C1                                                                      *)
(***************************************************************************)
\* C1: getByLanguage(L), for each of the eight supported languages L, returns
\* as many entries as the dataset has, entry i carrying the code, continent,
\* area, population and capital of record i and the name name[L] of record i;
\* getByLanguage() returns what getByLanguage('English') returns.
C1_LanguageProjection ==
    IsCall("getByLanguage") =>
        LET arg == last.args[1] IN
        /\ (arg.t = "string" /\ arg.str \in Languages) =>
              /\ Len(ret) = Len(all0)
              /\ \A i \in 1..Len(all0) :
                    /\ SameOtherFields(ret[i], all0[i])
                    /\ ret[i].name = NameIn(all0[i], arg.str)
        /\ arg = Undefined => ret = Projection("English")

C1_Witness ==
    /\ IsCall("getByLanguage")
    /\ last.args[1] = Str("Korean")
    /\ Len(ret) = 2
    /\ ret[1].code = "IN" /\ ret[1].name = Str("India (Korean)")
    /\ ret[2].code = "CA" /\ ret[2].name = Str("Canada (Korean)")

(***************************************************************************)
(* C2                                                                      *)
(***************************************************************************)
\* C2: no call changes the dataset: whatever calls were made, countries.all
\* holds the records it was loaded with, each name still the whole name
\* object, and a getByLanguage(L) made after other calls returns the original
\* name[L] of every record.
C2_DatasetNeverMutated ==
    /\ all = all0
    /\ \A i \in 1..Len(all) :
          all[i].name.t = "object" /\ "English" \in DOMAIN all[i].name.props
    /\ (IsCall("getByLanguage") /\ last.args[1].t = "string"
            /\ last.args[1].str \in Languages) =>
          \A i \in 1..Len(all0) : ret[i].name = NameIn(all0[i], last.args[1].str)

\* A click on the Arabic menu item, later a direct getByLanguage('French').
C2_Witness ==
    /\ subtitle.value = "List of Countries and Dependencies in Arabic"
    /\ IsCall("getByLanguage")
    /\ last.args[1] = Str("French")
    /\ Len(ret) = 2
    /\ ret[1].name = Str("Bahrain (French)")
    /\ ret[2].name = Str("Aland (French)")
    /\ all = all0

(***************************************************************************)
(* C3                                                                      *)
(***************************************************************************)
\* C3: getByPopulation(min, max) with a non-zero max returns exactly the
\* English-projected records with min <= population <= max, and
\* getByPopulation(min) exactly those with population >= min, each once,
\* records later in the dataset first.
C3_PopulationFilter ==
    IsCall("getByPopulation") =>
        LET lo == last.args[1]
            hi == last.args[2]
        IN /\ (hi.t = "number" /\ hi.num # 0) => ret = PopulationView(lo.num, TRUE, hi.num)
           /\ hi = Undefined => ret = PopulationView(lo.num, FALSE, 0)

C3_Witness ==
    /\ IsCall("getByPopulation")
    /\ last.args = <<Num(1000000), Num(2000000)>>
    /\ Len(all0) = 2 /\ all0[1].code = "BH" /\ all0[2].code = "XB"
    /\ Len(ret) = 2 /\ ret[1].code = "XB" /\ ret[2].code = "BH"

C5_AreaAndContinentFilter ==
    IsCall("getByAreaAndContinent") =>
        LET continent == last.args[1].str
            area == last.args[2].num
        IN /\ ret = AreaView(continent, area)
           /\ area = 0 =>
                 Len(ret) = Cardinality({i \in 1..Len(all0) : all0[i].continent = continent})
           /\ (\A i \in 1..Len(all0) : all0[i].continent # continent) => ret = <<>>

C5_Witness ==
    /\ IsCall("getByAreaAndContinent")
    /\ last.args = <<Str("Americas"), Num(1000000)>>
    /\ Len(all0) = 2 /\ all0[1].code = "CA" /\ all0[2].code = "XA"
    /\ Len(ret) = 2 /\ ret[1].code = "XA" /\ ret[2].code = "CA"

MenuView(menu) ==
    CASE menu = "menu_english" -> Projection("English")
      [] menu = "menu_arabic" -> Projection("Arabic")
      [] menu = "menu_chinese" -> Projection("Chinese")
      [] menu = "menu_french" -> Projection("French")
      [] menu = "menu_hindi" -> Projection("Hindi")
      [] menu = "menu_korean" -> Projection("Korean")
      [] menu = "menu_japanese" -> Projection("Japanese")
      [] menu = "menu_russian" -> Projection("Russian")
      [] menu = "menu_population_100_000_000m" -> PopulationView(100000000, FALSE, 0)
      [] menu = "menu_population_1m_2m" -> PopulationView(1000000, TRUE, 2000000)
      [] menu = "menu_americas_1mkm" -> AreaView("Americas", 1000000)
      [] menu = "menu_asia_all" -> AreaView("Asia", 0)

MenuCaption(menu) ==
    CASE menu = "menu_english" -> "List of Countries and Dependencies in English"
      [] menu = "menu_arabic" -> "List of Countries and Dependencies in Arabic"
      [] menu = "menu_chinese" -> "List of Countries and Dependencies in Chinese"
      [] menu = "menu_french" -> "List of Countries and Dependencies in French"
      [] menu = "menu_hindi" -> "List of Countries and Dependencies in Hindi"
      [] menu = "menu_korean" -> "List of Countries and Dependencies in Korean"
      [] menu = "menu_japanese" -> "List of Countries and Dependencies in Japanese"
      [] menu = "menu_russian" -> "List of Countries and Dependencies in Russian"
      [] menu = "menu_population_100_000_000m" ->
            "List of Countries and Dependencies - Population greater than 100 million"
      [] menu = "menu_population_1m_2m" ->
            "List of Countries and Dependencies - Population between 1 and 2 millon"
      [] menu = "menu_americas_1mkm" ->
            "List of Countries and Dependencies - All countries in Americas with area greater than 1 million km<sup>2</sup"
      [] menu = "menu_asia_all" -> "List of Countries and Dependencies - All countries in Asia"

Menus ==
    {"menu_english", "menu_arabic", "menu_chinese", "menu_french", "menu_hindi",
     "menu_korean", "menu_japanese", "menu_russian", "menu_population_100_000_000m",
     "menu_population_1m_2m", "menu_americas_1mkm", "menu_asia_all"}

\* The text of a name cell: the name, or "undefined" for a missing one.
NameText(name) == IF name.t = "string" THEN name.str ELSE "undefined"

\* C7: when a menu handler has run, whatever ran before it, the table shows
\* exactly the records of that item's one query on the loaded dataset, in the
\* query's order, and the heading is that item's caption; the handler's steps
\* were the query, the clearing, one append per record, the caption.
C7_LastMenuDecidesView ==
    last.op \in Menus =>
        LET view == MenuView(last.op) IN
        /\ Len(tableRows) = Len(view)
        /\ \A i \in 1..Len(view) :
              /\ tableRows[i][2].data = view[i].code
              /\ tableRows[i][3].data = NameText(view[i].name)
              /\ tableRows[i][7].data = view[i].capital
        /\ subtitle.value = MenuCaption(last.op)
        /\ last.steps = <<"query", "clearTable">>
                            \o [i \in 1..Len(view) |-> "appendChild"] \o <<"subtitle">>

\* The Asia item clicked on a table of two rows showing something else.
C7_Witness ==
    /\ last.op = "menu_asia_all"
    /\ last.before = 2
    /\ Len(all0) = 2 /\ all0[1].code = "CA" /\ all0[2].code = "IN"
    /\ Len(tableRows) = 1
    /\ tableRows[1][2].data = "IN"

(***************************************************************************)
(* C8                                                                      *)
(***************************************************************************)
\* C8: getByLanguage returns every country with its name replaced by the
\* translation for the requested language, or by the English name when no
\* language is given or the language is not a key of the record's name
\* object.
C8_UnknownLanguageFallsBackToEnglish ==
    (IsCall("getByLanguage")
        /\ (last.args[1] = Undefined \/ (last.args[1].t = "string" /\ last.args[1].str # ""))) =>
        LET L == IF last.args[1] = Undefined THEN "English" ELSE last.args[1].str IN
        /\ Len(ret) = Len(all0)
        /\ \A i \in 1..Len(all0) :
              ret[i].name = IF L \in DOMAIN all0[i].name.props
                            THEN all0[i].name.props[L]
                            ELSE all0[i].name.props["English"]

(***************************************************************************)
(* C9                                                                      *)
(***************************************************************************)
\* C9: for every non-empty language label that is a key of no record's name
\* object, getByLanguage returns as many entries as the dataset has, in its
\* order, every name undefined and every other field copied.
C9_UnknownLanguageGivesUndefined ==
    (IsCall("getByLanguage") /\ last.args[1].t = "string" /\ last.args[1].str # ""
        /\ \A i \in 1..Len(all0) : last.args[1].str \notin DOMAIN all0[i].name.props) =>
        /\ Len(ret) = Len(all0)
        /\ \A i \in 1..Len(all0) :
              SameOtherFields(ret[i], all0[i]) /\ ret[i].name = Undefined

====
